---- MODULE Spec2Model ----
(***************************************************************************)
(* Model of kevinbelleville/sunset_predictor: the sunset scorer            *)
(* (sunset_score.py), the per-day sunset-hour alignment and extraction of  *)
(* calculate_sunset_scores / print_timeline (timeline.py) and the          *)
(* single-day scripts (weather.py, sunset_predictor/weather.py).           *)
(*                                                                         *)
(* Python floats are modelled in fixed point: a real r is the integer      *)
(* floor(r * Scale).  Scores are therefore integers in 0 .. 100 * Scale.   *)
(* Readings are integers in the unit of their field: percent for the       *)
(* cloud fields and humidity, metres for visibility, 1/PmUnit ug/m3 for    *)
(* pm2_5 and pm10, 1/AodUnit for aod.                                      *)
(***************************************************************************)
EXTENDS Integers, Sequences, FiniteSets

VARIABLES
    pc,               \* position of the running program
    script,           \* which program runs
    hourly_times,     \* data["hourly"]["time"], parsed: minutes since the first local midnight
    sunset_times,     \* data["daily"]["sunset"], parsed: minutes since the first local midnight
    day_idx,          \* loop variable of calculate_sunset_scores
    sunset_index,     \* index of the hourly sample chosen for the current day
    reading,          \* the nine arguments handed to score_sunset
    result,           \* what score_sunset returned or raised
    timeline_results, \* the scores appended so far
    print_idx,        \* loop variable of print_timeline
    rating,           \* what the last rating lookup returned
    raised            \* the exception that ended the program, or "none"

vars ==
    <<pc, script, hourly_times, sunset_times, day_idx, sunset_index, reading,
      result, timeline_results, print_idx, rating, raised>>

(***************************************************************************)
(* Fixed-point arithmetic standing for Python's float operations.          *)
(***************************************************************************)
Scale == 10000
PmUnit == 2
AodUnit == 100
Null == -1

\* a / b for integers a >= 0, b > 0, as a Scale-d real
FDiv(a, b) ==
    (a \div b) * Scale + ((a % b) * Scale) \div b

\* x * y for Scale-d reals x, y >= 0
FMul(x, y) ==
    (x \div Scale) * y + ((x % Scale) * y) \div Scale

Abs(x) ==
    IF x < 0 THEN -x ELSE x

Min(a, b) ==
    IF a < b THEN a ELSE b

Max(a, b) ==
    IF a > b THEN a ELSE b

\* sum of f^k / k! for k = n .. ExpTerms, given term = f^(n-1) / (n-1)!
ExpTerms == 12

RECURSIVE ExpSeries(_, _, _)
ExpSeries(f, term, n) ==
    IF n > ExpTerms \/ term = 0
    THEN 0
    ELSE term + ExpSeries(f, FMul(term, f) \div n, n + 1)

\* e^f for a Scale-d real 0 <= f < 1
ExpFrac(f) ==
    ExpSeries(f, Scale, 1)

\* e^1 and e^-1
ExpOne ==
    ExpSeries(Scale, Scale, 1)

ExpMinusOne ==
    (Scale * Scale) \div ExpOne

RECURSIVE FPow(_, _)
FPow(base, n) ==
    IF n = 0 THEN Scale ELSE FMul(FPow(base, n - 1), base)

\* math.exp(x) for a Scale-d real x of either sign
Exp(x) ==
    IF x >= 0
    THEN FMul(FPow(ExpOne, x \div Scale), ExpFrac(x % Scale))
    ELSE FMul(FPow(ExpMinusOne, (-x) \div Scale),
              (Scale * Scale) \div ExpFrac((-x) % Scale))

(***************************************************************************)
(* sunset_score.py                                                         *)
(***************************************************************************)
\* gaussian_score(distance, sigma) * 100: distance and sigma in the same unit
gaussian_score(distance, sigma) ==
    Exp(-FDiv(distance * distance, 2 * sigma * sigma))

cloud_coverage_score(cloud_cover) ==
    gaussian_score(Abs(cloud_cover - 50), 20) * 100

\* cloud_quality = (cloud_mid + cloud_high) / 2 - cloud_low, times 2
cloud_quality2(cloud_low, cloud_mid, cloud_high) ==
    cloud_mid + cloud_high - 2 * cloud_low

cloud_type_score(cloud_low, cloud_mid, cloud_high) ==
    LET q2 == cloud_quality2(cloud_low, cloud_mid, cloud_high)
        x  == IF q2 >= 0 THEN -FDiv(q2, 2 * 20) ELSE FDiv(-q2, 2 * 20)
    IN  ((Scale * Scale) \div (Scale + Exp(x))) * 100

cloud_score(cloud_cover, cloud_low, cloud_mid, cloud_high) ==
    (cloud_coverage_score(cloud_cover)
       + cloud_type_score(cloud_low, cloud_mid, cloud_high)) \div 2

pm_score(pm2_5) ==
    gaussian_score(Abs(pm2_5 - 15 * PmUnit), 35 * PmUnit) * 100

aod_score(aod) ==
    IF aod * 100 < 5 * AodUnit
    THEN 30 * Scale
    ELSE gaussian_score(Abs(aod - (3 * AodUnit) \div 10), (4 * AodUnit) \div 10) * 100

\* size_ratio = pm10 / pm2_5: Python's / raises ZeroDivisionError on a zero divisor
size_ratio(pm10, pm2_5) ==
    IF pm2_5 = 0
    THEN [fault |-> TRUE, value |-> 0]
    ELSE [fault |-> FALSE, value |-> FDiv(pm10, pm2_5)]

\* size_score with the guard written `pm2_5 >= 0`
size_score_unguarded(pm2_5, pm10) ==
    IF pm2_5 >= 0
    THEN LET ratio == size_ratio(pm10, pm2_5)
         IN  [divided |-> TRUE,
              fault   |-> ratio.fault,
              score   |-> IF 2 * Scale <= ratio.value /\ 2 * ratio.value <= 7 * Scale
                          THEN 100 * Scale ELSE 70 * Scale]
    ELSE [divided |-> FALSE, fault |-> FALSE, score |-> 50 * Scale]

\* the size sub-score: whether pm10 / pm2_5 was evaluated, whether that
\* division faulted, and the sub-score
size_score(pm2_5, pm10) ==
    IF pm2_5 > 0
    THEN LET ratio == size_ratio(pm10, pm2_5)
         IN  [divided |-> TRUE,
              fault   |-> ratio.fault,
              score   |-> IF 2 * Scale <= ratio.value /\ 2 * ratio.value <= 7 * Scale
                          THEN 100 * Scale ELSE 70 * Scale]
    ELSE [divided |-> FALSE, fault |-> FALSE, score |-> 50 * Scale]

particle_score(pm2_5, pm10, aod) ==
    (pm_score(pm2_5) * 5) \div 10 + (aod_score(aod) * 4) \div 10
      + size_score(pm2_5, pm10).score \div 10

humidity_score(humidity) ==
    gaussian_score(Abs(humidity - 60), 20) * 100

visibility_score(visibility) ==
    IF visibility < 5000
    THEN FDiv(visibility, 5000) * 100
    ELSE Min(100 * Scale, FDiv(visibility, 10000) * 100)

base_score(r) ==
    (cloud_score(r.cloud_cover, r.cloud_low, r.cloud_mid, r.cloud_high) * 40) \div 100
      + (particle_score(r.pm2_5, r.pm10, r.aod) * 30) \div 100
      + (visibility_score(r.visibility) * 20) \div 100
      + (humidity_score(r.humidity) * 10) \div 100

\* cloud_ceiling as the comment above it reads: "No clouds? Can't score above 50"
cloud_ceiling_as_commented(cloud_cover) ==
    IF cloud_cover < 25 THEN 50 ELSE 100

cloud_ceiling(cloud_cover) ==
    IF cloud_cover < 10 THEN 30
    ELSE IF cloud_cover < 25 THEN 50
    ELSE 100

particle_ceiling(pm2_5, aod) ==
    IF pm2_5 > 75 * PmUnit \/ 10 * aod > 15 * AodUnit THEN 40
    ELSE IF pm2_5 > 55 * PmUnit \/ aod > AodUnit THEN 60
    ELSE 100

ceiling(r) ==
    Min(cloud_ceiling(r.cloud_cover), particle_ceiling(r.pm2_5, r.aod))

final_score(r) ==
    Min(base_score(r), ceiling(r) * Scale)

\* an argument that is None makes the first arithmetic or comparison on it
\* raise TypeError; pm10 is only touched when pm2_5 > 0
NoneOperand(r) ==
    \/ r.cloud_cover = Null \/ r.cloud_mid = Null \/ r.cloud_high = Null
    \/ r.cloud_low = Null \/ r.pm2_5 = Null \/ r.aod = Null
    \/ (r.pm2_5 > 0 /\ r.pm10 = Null)
    \/ r.humidity = Null \/ r.visibility = Null

NoResult ==
    [raised |-> "none", score |-> 0, size_score |-> 0, divided |-> FALSE,
     base |-> 0, ceiling |-> 0]

\* score_sunset returning the weighted sum rescaled, ceiling and clamp lost
score_sunset_unclamped(r) ==
    IF NoneOperand(r)
    THEN [NoResult EXCEPT !.raised = "TypeError"]
    ELSE LET size == size_score(r.pm2_5, r.pm10)
         IN  IF size.fault
             THEN [NoResult EXCEPT !.raised = "ZeroDivisionError", !.divided = TRUE]
             ELSE [raised     |-> "none",
                   score      |-> base_score(r) * 100,
                   size_score |-> size.score,
                   divided    |-> size.divided,
                   base       |-> base_score(r),
                   ceiling    |-> ceiling(r)]

score_sunset(r) ==
    IF NoneOperand(r)
    THEN [NoResult EXCEPT !.raised = "TypeError"]
    ELSE LET size == size_score(r.pm2_5, r.pm10)
         IN  IF size.fault
             THEN [NoResult EXCEPT !.raised = "ZeroDivisionError", !.divided = TRUE]
             ELSE [raised     |-> "none",
                   score      |-> Max(0, Min(100 * Scale, final_score(r))),
                   size_score |-> size.score,
                   divided    |-> size.divided,
                   base       |-> base_score(r),
                   ceiling    |-> ceiling(r)]

Reading(cc, cl, cm, ch, h, v, p25, p10, a) ==
    [cloud_cover |-> cc, cloud_low |-> cl, cloud_mid |-> cm, cloud_high |-> ch,
     humidity |-> h, visibility |-> v, pm2_5 |-> p25, pm10 |-> p10, aod |-> a]

\* the three calls at the bottom of sunset_score.py
GoodSunset ==
    Reading(50, 10, 30, 40, 65, 15000, 18 * PmUnit, 45 * PmUnit, (35 * AodUnit) \div 100)

BadSunset ==
    Reading(0, 0, 0, 0, 30, 3000, 80 * PmUnit, 150 * PmUnit, (18 * AodUnit) \div 10)

ClearSky ==
    Reading(5, 5, 0, 0, 60, 20000, 15 * PmUnit, (75 * PmUnit) \div 2, (3 * AodUnit) \div 10)

(***************************************************************************)
(* The rating lookup: ratings[int(score // 20)]                            *)
(***************************************************************************)
ratings ==
    <<"Poor", "Fair", "Good", "Great", "Amazing">>

\* a Python list subscript: indices -len .. len-1 are valid, others raise
PyIndexValid(i, n) ==
    -n <= i /\ i < n

rating_lookup(score) ==
    LET i == score \div (20 * Scale)
    IN  IF PyIndexValid(i, Len(ratings))
        THEN [raised |-> "none",
              label  |-> ratings[(IF i < 0 THEN i + Len(ratings) ELSE i) + 1]]
        ELSE [raised |-> "IndexError", label |-> "none"]

NoRating ==
    [raised |-> "none", label |-> "none"]

(***************************************************************************)
(* Timestamps are minutes since the first local midnight of the series.    *)
(***************************************************************************)
HoursPerDay == 24

\* datetime.hour
Hour(t) ==
    (t \div 60) % 24

\* s[a : b] for 0 <= a <= b
PySlice(s, a, b) ==
    IF a >= Len(s) THEN << >> ELSE SubSeq(s, a + 1, Min(b, Len(s)))

\* `x or 0`
OrZero(x) ==
    IF x = Null \/ x = 0 THEN 0 ELSE x

(***************************************************************************)
(* timeline.py: calculate_sunset_scores and print_timeline                 *)
(***************************************************************************)
day_start_idx ==
    day_idx * HoursPerDay

day_hourly_times ==
    PySlice(hourly_times, day_start_idx, day_start_idx + HoursPerDay)

\* the for/break scan from position i: the first position whose hour is
\* sunset_hour, or Null when the scan runs off the end
\* the scan without its break: the last match wins
RECURSIVE scan_for_hour_last(_, _, _)
scan_for_hour_last(times, sunset_hour, i) ==
    IF i >= Len(times) THEN Null
    ELSE LET later == scan_for_hour_last(times, sunset_hour, i + 1)
         IN  IF later # Null THEN later
             ELSE IF Hour(times[i + 1]) = sunset_hour THEN i
             ELSE Null

RECURSIVE scan_for_hour(_, _, _)
scan_for_hour(times, sunset_hour, i) ==
    IF i >= Len(times) THEN Null
    ELSE IF Hour(times[i + 1]) = sunset_hour THEN i
    ELSE scan_for_hour(times, sunset_hour, i + 1)

timeline_sunset_index ==
    LET sunset_hour == Hour(sunset_times[day_idx + 1])
        found       == scan_for_hour(day_hourly_times, sunset_hour, 0)
    IN  IF found # Null
        THEN day_start_idx + found
        ELSE day_start_idx + Len(day_hourly_times) - 1

\* the nine values found at sunset_index, each replaced by 0 when null
timeline_extract(raw) ==
    [cloud_cover |-> OrZero(raw.cloud_cover), cloud_low |-> OrZero(raw.cloud_low),
     cloud_mid |-> OrZero(raw.cloud_mid), cloud_high |-> OrZero(raw.cloud_high),
     humidity |-> OrZero(raw.humidity), visibility |-> OrZero(raw.visibility),
     pm2_5 |-> OrZero(raw.pm2_5), pm10 |-> OrZero(raw.pm10), aod |-> OrZero(raw.aod)]

(***************************************************************************)
(* weather.py and sunset_predictor/weather.py: the single-day scripts      *)
(***************************************************************************)
\* next(i for i, t in enumerate(hourly_times) if t.hour == sunset_hour):
\* the first match over the whole series, StopIteration when there is none
weather_sunset_index ==
    LET sunset_hour == Hour(sunset_times[1])
        found       == scan_for_hour(hourly_times, sunset_hour, 0)
    IN  IF found # Null
        THEN [raised |-> "none", index |-> found]
        ELSE [raised |-> "StopIteration", index |-> Null]

(***************************************************************************)
(* The fetched data the programs run on.                                   *)
(***************************************************************************)
MaxDays == 2
ShortDay == 20

\* hourly timestamps: n entries one hour apart from local midnight, with the
\* local clock shifted by delta hours from entry DstEntry on (0: no change,
\* 1: an hour label is skipped, -1: an hour label is repeated)
DstEntry == 17

HourlySeries(n, delta) ==
    [k \in 1..n |-> 60 * ((k - 1) + (IF k - 1 >= DstEntry THEN delta ELSE 0))]

HourlyLengths ==
    {d * HoursPerDay + e : d \in 0..MaxDays, e \in {0, ShortDay}}
        \cap 0..(MaxDays * HoursPerDay)

\* one sunset per day: day d's at hour hs[d], m minutes past the hour
SunsetSeries(hs, m) ==
    [d \in DOMAIN hs |-> (d - 1) * HoursPerDay * 60 + hs[d] * 60 + m]

\* the repeated hour label, the skipped one, and one past a short day's end
SunsetHours ==
    {DstEntry - 1, DstEntry, ShortDay + 2}

SunsetMinutes ==
    {0, 42}

AllNull ==
    Reading(Null, Null, Null, Null, Null, Null, Null, Null, Null)

\* what the two APIs may hold at one hour: complete, nothing, or partly null
RawReadings ==
    {GoodSunset, AllNull, [BadSunset EXCEPT !.pm2_5 = Null, !.cloud_cover = Null]}

Scripts ==
    {"timeline", "weather", "pkg_weather"}

Init ==
    /\ script \in Scripts
    /\ \E n \in HourlyLengths, delta \in {-1, 0, 1} :
          hourly_times = HourlySeries(n, delta)
    /\ \E days \in 1..MaxDays, m \in SunsetMinutes :
          \E hs \in [1..days -> SunsetHours] : sunset_times = SunsetSeries(hs, m)
    /\ pc = "align"
    /\ day_idx = 0
    /\ sunset_index = Null
    /\ reading = AllNull
    /\ result = NoResult
    /\ timeline_results = << >>
    /\ print_idx = 0
    /\ rating = NoRating
    /\ raised = "none"

\* timeline.py lines 95-113: one iteration's alignment
TimelineAlign ==
    /\ script = "timeline" /\ pc = "align"
    /\ day_idx < Len(sunset_times)
    /\ sunset_index' = timeline_sunset_index
    /\ pc' = "extract"
    /\ UNCHANGED <<script, hourly_times, sunset_times, day_idx, reading, result,
                   timeline_results, print_idx, rating, raised>>

\* timeline.py lines 115-126: the subscripts at sunset_index and `or 0`
TimelineExtract ==
    /\ script = "timeline" /\ pc = "extract"
    /\ IF PyIndexValid(sunset_index, Len(hourly_times))
       THEN /\ \E raw \in RawReadings : reading' = timeline_extract(raw)
            /\ pc' = "score"
            /\ raised' = raised
       ELSE /\ raised' = "IndexError"
            /\ pc' = "done"
            /\ reading' = reading
    /\ UNCHANGED <<script, hourly_times, sunset_times, day_idx, sunset_index, result,
                   timeline_results, print_idx, rating>>

\* timeline.py lines 129-162: the call and the append
TimelineScore ==
    /\ script = "timeline" /\ pc = "score"
    /\ result' = score_sunset(reading)
    /\ IF result'.raised = "none"
       THEN /\ timeline_results' = Append(timeline_results, result'.score)
            /\ day_idx' = day_idx + 1
            /\ pc' = "align"
            /\ raised' = raised
       ELSE /\ raised' = result'.raised
            /\ pc' = "done"
            /\ UNCHANGED <<timeline_results, day_idx>>
    /\ UNCHANGED <<script, hourly_times, sunset_times, sunset_index, reading,
                   print_idx, rating>>

\* timeline.py lines 164, 245-248: the loop ends and print_timeline starts
TimelineReturn ==
    /\ script = "timeline" /\ pc = "align"
    /\ day_idx = Len(sunset_times)
    /\ pc' = "print"
    /\ UNCHANGED <<script, hourly_times, sunset_times, day_idx, sunset_index, reading,
                   result, timeline_results, print_idx, rating, raised>>

\* timeline.py lines 222-233: one row of print_timeline
TimelinePrint ==
    /\ script = "timeline" /\ pc = "print"
    /\ print_idx < Len(timeline_results)
    /\ rating' = rating_lookup(timeline_results[print_idx + 1])
    /\ IF rating'.raised = "none"
       THEN /\ print_idx' = print_idx + 1
            /\ pc' = IF print_idx + 1 = Len(timeline_results) THEN "done" ELSE "print"
            /\ raised' = raised
       ELSE /\ raised' = rating'.raised
            /\ pc' = "done"
            /\ print_idx' = print_idx
    /\ UNCHANGED <<script, hourly_times, sunset_times, day_idx, sunset_index, reading,
                   result, timeline_results>>

\* the single-day scripts, step by step
WeatherScriptAlign(s) ==
    /\ script = s /\ pc = "align"
    /\ LET a == weather_sunset_index
       IN  /\ sunset_index' = a.index
           /\ raised' = a.raised
           /\ pc' = IF a.raised = "none" THEN "extract" ELSE "done"
    /\ UNCHANGED <<script, hourly_times, sunset_times, day_idx, reading, result,
                   timeline_results, print_idx, rating>>

WeatherScriptExtract(s) ==
    /\ script = s /\ pc = "extract"
    /\ \E raw \in RawReadings : reading' = raw
    /\ pc' = "score"
    /\ UNCHANGED <<script, hourly_times, sunset_times, day_idx, sunset_index, result,
                   timeline_results, print_idx, rating, raised>>

WeatherScriptScore(s) ==
    /\ script = s /\ pc = "score"
    /\ result' = score_sunset(reading)
    /\ raised' = result'.raised
    /\ pc' = IF result'.raised = "none" THEN "rate" ELSE "done"
    /\ UNCHANGED <<script, hourly_times, sunset_times, day_idx, sunset_index, reading,
                   timeline_results, print_idx, rating>>

WeatherScriptRate(s) ==
    /\ script = s /\ pc = "rate"
    /\ rating' = rating_lookup(result.score)
    /\ raised' = rating'.raised
    /\ pc' = "done"
    /\ UNCHANGED <<script, hourly_times, sunset_times, day_idx, sunset_index, reading,
                   result, timeline_results, print_idx>>

\* weather.py
WeatherAlign ==
    WeatherScriptAlign("weather")

WeatherExtract ==
    WeatherScriptExtract("weather")

WeatherScore ==
    WeatherScriptScore("weather")

WeatherRate ==
    WeatherScriptRate("weather")

\* sunset_predictor/weather.py
PkgWeatherAlign ==
    WeatherScriptAlign("pkg_weather")

PkgWeatherExtract ==
    WeatherScriptExtract("pkg_weather")

PkgWeatherScore ==
    WeatherScriptScore("pkg_weather")

PkgWeatherRate ==
    WeatherScriptRate("pkg_weather")

Next ==
    \/ TimelineAlign
    \/ TimelineExtract
    \/ TimelineScore
    \/ TimelineReturn
    \/ TimelinePrint
    \/ WeatherAlign
    \/ WeatherExtract
    \/ WeatherScore
    \/ WeatherRate
    \/ PkgWeatherAlign
    \/ PkgWeatherExtract
    \/ PkgWeatherScore
    \/ PkgWeatherRate

Spec ==
    Init /\ [][Next]_vars

(***************************************************************************)
(* score_sunset as a pure function: every reading of a grid of valid       *)
(* readings, and the three readings sunset_score.py itself calls it with.  *)
(***************************************************************************)
GridN == 2

PercentGrid ==
    {(100 * k) \div GridN : k \in 0..GridN}

\* the grid plus both sides of the cloud ceiling thresholds
CloudCoverValues ==
    PercentGrid \cup {9, 10, 24, 25}

CloudLayerValues ==
    {0, 50, 100}

\* both sides of the 5000 m branch and of the 10000 m saturation
VisibilityValues ==
    {0, 4999, 5000, 10000}

\* none, ideal, and both sides of the particle ceiling thresholds
Pm25Values ==
    {0, 15 * PmUnit, 55 * PmUnit, 55 * PmUnit + 1, 75 * PmUnit, 75 * PmUnit + 1}

Pm10Values ==
    {0, (75 * PmUnit) \div 2, 300 * PmUnit}

AodValues ==
    {0, (5 * AodUnit) \div 100, (3 * AodUnit) \div 10, AodUnit, AodUnit + 1,
     (15 * AodUnit) \div 10, (15 * AodUnit) \div 10 + 1}

ValidReading(r) ==
    /\ r.cloud_cover \in 0..100 /\ r.cloud_low \in 0..100
    /\ r.cloud_mid \in 0..100 /\ r.cloud_high \in 0..100
    /\ r.humidity \in 0..100
    /\ r.visibility >= 0 /\ r.pm2_5 >= 0 /\ r.pm10 >= 0 /\ r.aod >= 0

InitScore ==
    /\ script = "score"
    /\ \/ \E cc \in CloudCoverValues, cl \in CloudLayerValues, cm \in CloudLayerValues,
             ch \in CloudLayerValues, h \in PercentGrid, v \in VisibilityValues,
             p25 \in Pm25Values, p10 \in Pm10Values, a \in AodValues :
               reading = Reading(cc, cl, cm, ch, h, v, p25, p10, a)
       \/ reading \in {GoodSunset, BadSunset, ClearSky}
    /\ pc = "call"
    /\ hourly_times = << >>
    /\ sunset_times = << >>
    /\ day_idx = 0
    /\ sunset_index = Null
    /\ result = NoResult
    /\ timeline_results = << >>
    /\ print_idx = 0
    /\ rating = NoRating
    /\ raised = "none"

ScoreCall ==
    /\ script = "score" /\ pc = "call"
    /\ result' = score_sunset(reading)
    /\ raised' = result'.raised
    /\ pc' = "returned"
    /\ UNCHANGED <<script, hourly_times, sunset_times, day_idx, sunset_index, reading,
                   timeline_results, print_idx, rating>>

NextScore ==
    ScoreCall

SpecScore ==
    InitScore /\ [][NextScore]_vars

(***************************************************************************)
(* The rating lookup as a pure function of a score in [0, 100].            *)
(***************************************************************************)
RatingGrid == 2

\* every 1/RatingGrid point from 0 to 100, and the last value below each
\* bucket boundary
ScoreValues ==
    {(k * Scale) \div RatingGrid : k \in 0..(100 * RatingGrid)}
        \cup {20 * j * Scale - 1 : j \in 1..5} \cup {100 * Scale}

InitRating ==
    /\ script = "rating"
    /\ \E sc \in ScoreValues : result = [NoResult EXCEPT !.score = sc]
    /\ pc = "rate"
    /\ hourly_times = << >>
    /\ sunset_times = << >>
    /\ day_idx = 0
    /\ sunset_index = Null
    /\ reading = AllNull
    /\ timeline_results = << >>
    /\ print_idx = 0
    /\ rating = NoRating
    /\ raised = "none"

RateScore ==
    /\ script = "rating" /\ pc = "rate"
    /\ rating' = rating_lookup(result.score)
    /\ raised' = rating'.raised
    /\ pc' = "done"
    /\ UNCHANGED <<script, hourly_times, sunset_times, day_idx, sunset_index, reading,
                   result, timeline_results, print_idx>>

NextRating ==
    RateScore

SpecRating ==
    InitRating /\ [][NextRating]_vars

(***************************************************************************)
(* Properties                                                              *)
(***************************************************************************)
Returned ==
    script = "score" /\ pc = "returned"

\* C1: for every valid reading score_sunset returns a value v with
\* 0 <= v <= 100.
C1_ScoreInRange ==
    (Returned /\ ValidReading(reading))
        => /\ result.raised = "none"
           /\ 0 <= result.score
           /\ result.score <= 100 * Scale

\* a valid reading whose weighted sum, above 90, is returned as it is
C1_Witness ==
    /\ Returned /\ ValidReading(reading)
    /\ result.raised = "none"
    /\ result.base > 90 * Scale
    /\ result.score = result.base

DayPositions ==
    (day_idx * HoursPerDay) ..
        (Min(day_idx * HoursPerDay + HoursPerDay, Len(hourly_times)) - 1)

MatchingPositions ==
    {k \in DayPositions :
        (hourly_times[k + 1] \div 60) % 24 = (sunset_times[day_idx + 1] \div 60) % 24}

Aligned ==
    script = "timeline" /\ pc = "extract"

\* C3: in calculate_sunset_scores, for a day with a non-empty slice, the
\* sunset_index is the smallest position of the slice whose hour-of-day is
\* the sunset's (minutes ignored); when there is none it is the slice's last
\* position.
C3_FirstMatchOrLast ==
    (Aligned /\ DayPositions # {})
        => IF MatchingPositions # {}
           THEN /\ sunset_index \in MatchingPositions
                /\ \A k \in MatchingPositions : sunset_index <= k
           ELSE sunset_index = day_idx * HoursPerDay + Cardinality(DayPositions) - 1

\* two positions of the day carry the sunset's hour, the sunset is not on
\* the hour, and the earlier position was taken
C3_Witness ==
    /\ Aligned
    /\ Cardinality(MatchingPositions) >= 2
    /\ sunset_times[day_idx + 1] % 60 # 0
    /\ \A k \in MatchingPositions : sunset_index <= k

\* C4: at each of the three places that align the hourly samples to the
\* sunset hour, when no hourly timestamp of the (non-empty) day has the
\* sunset's hour-of-day, the alignment yields the last index of the day's
\* slice and does not raise.
C4_AlignerNeverRaises ==
    /\ (Aligned /\ DayPositions # {} /\ MatchingPositions = {})
          => /\ raised = "none"
             /\ sunset_index = day_idx * HoursPerDay + Cardinality(DayPositions) - 1
    /\ (script \in {"weather", "pkg_weather"} /\ pc # "align"
           /\ hourly_times # << >>
           /\ \A k \in 1..Len(hourly_times) :
                 Hour(hourly_times[k]) # Hour(sunset_times[1]))
          => /\ raised # "StopIteration"
             /\ sunset_index = Len(hourly_times) - 1

RatingLabels ==
    {ratings[i] : i \in 1..Len(ratings)}

\* C5: the rating lookup maps every score in [0, 100] to one of the five
\* labels, and a score of exactly 100 to "Amazing".
C5_RatingTotal ==
    (script = "rating" /\ pc = "done")
        => /\ rating.raised = "none"
           /\ rating.label \in RatingLabels
           /\ (result.score = 100 * Scale => rating.label = "Amazing")

\* C6: for the clear-sky reading of sunset_score.py the applied ceiling is
\* 50 and the returned score is exactly 50, below the weighted sum.
C6_ClearSkyCappedAt50 ==
    (Returned /\ reading = ClearSky)
        => /\ result.raised = "none"
           /\ result.base > 50 * Scale
           /\ result.ceiling = 50
           /\ result.score = 50 * Scale

\* C7: for the hazy reading of sunset_score.py the returned score is
\* strictly below 15.
C7_BadSunsetBelow15 ==
    (Returned /\ reading = BadSunset)
        => /\ result.raised = "none"
           /\ result.score < 15 * Scale

\* C8: in every caller, no argument handed to score_sunset is null: each
\* null reading was replaced by 0 first.
C8_NoNullArgument ==
    (script \in Scripts /\ pc = "score")
        => /\ reading.cloud_cover # Null /\ reading.cloud_low # Null
           /\ reading.cloud_mid # Null /\ reading.cloud_high # Null
           /\ reading.humidity # Null /\ reading.visibility # Null
           /\ reading.pm2_5 # Null /\ reading.pm10 # Null /\ reading.aod # Null

\* C9: for every valid reading with pm2_5 = 0 score_sunset does not divide
\* by pm2_5, uses the size sub-score 50 and returns; pm10 / pm2_5 is
\* evaluated only when pm2_5 > 0.
C9_DivisionGuard ==
    (Returned /\ ValidReading(reading))
        => /\ (reading.pm2_5 = 0
                 => /\ result.raised = "none"
                    /\ ~result.divided
                    /\ result.size_score = 50 * Scale)
           /\ (result.divided => reading.pm2_5 > 0)

\* pm2_5 = 0 with a positive pm10: a score comes back, the size sub-score 50
C9_Witness ==
    /\ Returned /\ ValidReading(reading)
    /\ reading.pm2_5 = 0 /\ reading.pm10 > 0
    /\ result.raised = "none"
    /\ result.size_score = 50 * Scale

\* C10: the sunset_index calculate_sunset_scores uses for day d is an index
\* of day d's own hours: d*24 <= sunset_index < min(d*24 + 24, number of
\* hourly entries), also when the day's slice is short or empty.
C10_IndexInDayRange ==
    Aligned
        => /\ day_idx * HoursPerDay <= sunset_index
           /\ sunset_index < Min(day_idx * HoursPerDay + HoursPerDay, Len(hourly_times))


(***************************************************************************)
(* The visibility sub-score as a pure function, applied to two             *)
(* visibilities v1 <= v2: here reading holds the two arguments and result  *)
(* the two sub-scores.                                                     *)
(***************************************************************************)
VisGrid == 8

\* an even grid over 0 .. 20000 m, and both sides of the 5000 m branch and
\* of the 10000 m saturation
VisibilityPairValues ==
    {(20000 * k) \div VisGrid : k \in 0..VisGrid}
        \cup {4999, 5000, 5001, 9999, 10000, 10001}

InitVisibility ==
    /\ script = "visibility"
    /\ \E v1 \in VisibilityPairValues, v2 \in VisibilityPairValues :
          /\ v1 <= v2
          /\ reading = [v1 |-> v1, v2 |-> v2]
    /\ result = [s1 |-> 0, s2 |-> 0]
    /\ pc = "call"
    /\ hourly_times = << >>
    /\ sunset_times = << >>
    /\ day_idx = 0
    /\ sunset_index = Null
    /\ timeline_results = << >>
    /\ print_idx = 0
    /\ rating = NoRating
    /\ raised = "none"

VisibilityCall ==
    /\ script = "visibility" /\ pc = "call"
    /\ result' = [s1 |-> visibility_score(reading.v1),
                  s2 |-> visibility_score(reading.v2)]
    /\ pc' = "returned"
    /\ UNCHANGED <<script, hourly_times, sunset_times, day_idx, sunset_index, reading,
                   timeline_results, print_idx, rating, raised>>

NextVisibility ==
    VisibilityCall

SpecVisibility ==
    InitVisibility /\ [][NextVisibility]_vars

\* C11: the visibility sub-score lies in [0, 100] and never decreases as
\* visibility grows: for 0 <= v1 <= v2 the sub-score of v1 is at most that
\* of v2, across the 5000 m branch too, and it is 100 from 10000 m on.
C11_VisibilityMonotone ==
    (script = "visibility" /\ pc = "returned")
        => /\ 0 <= result.s1 /\ result.s1 <= 100 * Scale
           /\ 0 <= result.s2 /\ result.s2 <= 100 * Scale
           /\ result.s1 <= result.s2
           /\ (reading.v2 >= 10000 => result.s2 = 100 * Scale)

====
